---- MODULE Spec2Model ----
(***************************************************************************)
(* Model of the transaction engine: the rule engine of transaction.rs, the *)
(* balance arithmetic of account.rs and the per-client dispatcher of       *)
(* main.rs (one producer, one channel and one worker task per client).     *)
(*                                                                         *)
(* Decimals are integers counting units of 10^-5, so that one digit beyond *)
(* the 4 kept by truncate_to_4 is representable: 10 is 0.0001, 15 is       *)
(* 0.00015.  Option<T> is a sequence of length 0 (None) or 1 (Some).       *)
(* A DashMap/HashMap is a function whose DOMAIN is the set of its keys.    *)
(***************************************************************************)
EXTENDS Integers, Sequences, FiniteSets, TLC

\* ------------------------------------------------------------------ bounds

\* Number of records the input stream may hold.
MaxEvents == 3

\* Number of events handed to the rule engine directly (SpecEngine).
MaxCalls == 4

\* Capacity of each per-client channel in the model.
QueueBound == 2

\* Number of records the stream of deposits may hold (SpecBackpressure).
MaxBurst == 4

\* Largest magnitude, in units of 10^-5, of the amounts truncate_to_4 is
\* evaluated on besides the sums that arise in a run.
MaxMagnitude == 25

\* main.rs: const CONCURRENCY_LIMIT: usize = 50, the capacity handed to
\* mpsc::channel for every client; scaled down to QueueBound so that a full
\* queue is reachable within MaxEvents records.
CONCURRENCY_LIMIT == QueueBound

Clients == {1, 2}

TxIds == {1, 2}

\* Amounts of the input records, in units of 10^-5: 10 = 0.0001 has 4
\* fractional digits, 15 = 0.00015 has 5.
ValidAmounts == {10, 15}

\* Amounts the validation rejects: zero and a negative one.
InvalidAmounts == {0, -10}

\* ------------------------------------------------------------------ models.rs

TransactionType == {"deposit", "withdrawal", "dispute", "resolve", "chargeback"}

\* struct Transaction { tx_type, client, tx, amount: Option<Decimal> }
Transaction ==
    [tx_type : {"deposit", "withdrawal"}, client : Clients, tx : TxIds,
     amount : {<<>>} \cup {<<a>> : a \in ValidAmounts \cup InvalidAmounts}]
    \cup
    [tx_type : {"dispute", "resolve", "chargeback"}, client : Clients, tx : TxIds,
     amount : {<<>>}]

\* Account { client, ..Default::default() }
Account(client_id) ==
    [client |-> client_id, available |-> 0, held |-> 0, total |-> 0, locked |-> FALSE]

TransactionRecord(client, amount) ==
    [client |-> client, amount |-> amount, disputed |-> FALSE]

\* ------------------------------------------------------------------ account.rs

\* round_dp_with_strategy(4, RoundingStrategy::ToZero): drop the 5th digit,
\* toward zero for either sign.
\* Mutant of truncate_to_4: the 5th digit is dropped toward minus infinity
\* (floor) instead of toward zero.
truncate_floor(amount) == (amount \div 10) * 10

truncate_to_4(amount) ==
    IF amount >= 0 THEN (amount \div 10) * 10 ELSE -(((-amount) \div 10) * 10)

mutate_account_balance(account, available_delta, held_delta, total_delta) ==
    [account EXCEPT !.available = truncate_to_4(account.available + available_delta),
                    !.held = truncate_to_4(account.held + held_delta),
                    !.total = truncate_to_4(account.total + total_delta)]

\* ------------------------------------------------------------------ transaction.rs

\* The diagnostic a handler emits (its warn! line), or that it emitted none.
Signals == {"applied", "silent", "locked", "duplicate", "insufficient_funds",
            "not_a_deposit", "dispute_failed", "not_under_dispute", "not_found"}

\* What a handler leaves behind: the two maps and the diagnostic.
Outcome(accts, txs, sig) == [accounts |-> accts, transactions |-> txs, signal |-> sig]

\* map with key k bound to v (inserted or overwritten)
Put(map, k, v) == [x \in DOMAIN map \cup {k} |-> IF x = k THEN v ELSE map[x]]

\* accounts.entry(client_id).or_insert_with(|| Account { client: client_id, .. })
entry_or_insert(accts, client_id) ==
    IF client_id \in DOMAIN accts THEN accts ELSE Put(accts, client_id, Account(client_id))

\* Mutant of insert_transaction: an occupied entry is overwritten.
insert_transaction_overwrite(tx_map, tx, client, amount) ==
    [inserted |-> TRUE, tx_map |-> Put(tx_map, tx, TransactionRecord(client, amount))]

insert_transaction(tx_map, tx, client, amount) ==
    IF tx \in DOMAIN tx_map
    THEN [inserted |-> FALSE, tx_map |-> tx_map]
    ELSE [inserted |-> TRUE, tx_map |-> Put(tx_map, tx, TransactionRecord(client, amount))]

\* Mutant of handle_deposit: only a negative amount is refused, a zero
\* amount is deposited.
handle_deposit_accepts_zero(t, accts, txs) ==
    IF t.amount = <<>> \/ t.amount[1] < 0 THEN Outcome(accts, txs, "silent")
    ELSE IF t.client \in DOMAIN accts /\ accts[t.client].locked
    THEN Outcome(accts, txs, "locked")
    ELSE LET amount == t.amount[1]
             created == entry_or_insert(accts, t.client)
             ins == insert_transaction(txs, t.tx, t.client, amount)
         IN  IF ins.inserted
             THEN Outcome(Put(created, t.client,
                              mutate_account_balance(created[t.client], amount, 0, amount)),
                          ins.tx_map, "applied")
             ELSE Outcome(created, txs, "duplicate")

handle_deposit(t, accts, txs) ==
    IF t.amount = <<>> \/ t.amount[1] <= 0 THEN Outcome(accts, txs, "silent")
    ELSE IF t.client \in DOMAIN accts /\ accts[t.client].locked
    THEN Outcome(accts, txs, "locked")
    ELSE LET amount == t.amount[1]
             created == entry_or_insert(accts, t.client)
             ins == insert_transaction(txs, t.tx, t.client, amount)
         IN  IF ins.inserted
             THEN Outcome(Put(created, t.client,
                              mutate_account_balance(created[t.client], amount, 0, amount)),
                          ins.tx_map, "applied")
             ELSE Outcome(created, txs, "duplicate")

\* Mutant of handle_withdrawal: the amount is compared with the account's
\* total instead of its available funds.
handle_withdrawal_against_total(t, accts, txs) ==
    IF t.amount = <<>> \/ t.amount[1] <= 0 THEN Outcome(accts, txs, "silent")
    ELSE IF t.client \in DOMAIN accts /\ accts[t.client].locked
    THEN Outcome(accts, txs, "locked")
    ELSE LET amount == t.amount[1]
             created == entry_or_insert(accts, t.client)
         IN  IF created[t.client].total >= amount
             THEN LET ins == insert_transaction(txs, t.tx, t.client, -amount)
                  IN  IF ins.inserted
                      THEN Outcome(Put(created, t.client,
                                       mutate_account_balance(created[t.client],
                                                              -amount, 0, -amount)),
                                   ins.tx_map, "applied")
                      ELSE Outcome(created, txs, "duplicate")
             ELSE Outcome(created, txs, "insufficient_funds")

handle_withdrawal(t, accts, txs) ==
    IF t.amount = <<>> \/ t.amount[1] <= 0 THEN Outcome(accts, txs, "silent")
    ELSE IF t.client \in DOMAIN accts /\ accts[t.client].locked
    THEN Outcome(accts, txs, "locked")
    ELSE LET amount == t.amount[1]
             created == entry_or_insert(accts, t.client)
         IN  IF created[t.client].available >= amount
             THEN LET ins == insert_transaction(txs, t.tx, t.client, -amount)
                  IN  IF ins.inserted
                      THEN Outcome(Put(created, t.client,
                                       mutate_account_balance(created[t.client],
                                                              -amount, 0, -amount)),
                                   ins.tx_map, "applied")
                      ELSE Outcome(created, txs, "duplicate")
             ELSE Outcome(created, txs, "insufficient_funds")

\* Mutant of handle_dispute: the record's owner is not compared with the
\* disputing client.
handle_dispute_any_client(t, accts, txs) ==
    LET created == entry_or_insert(accts, t.client)
    IN  IF t.tx \in DOMAIN txs /\ ~txs[t.tx].disputed
        THEN IF txs[t.tx].amount <= 0
             THEN Outcome(created, txs, "not_a_deposit")
             ELSE LET dispute_amount == txs[t.tx].amount
                  IN  Outcome(Put(created, t.client,
                                  mutate_account_balance(created[t.client],
                                                         -dispute_amount, dispute_amount, 0)),
                              Put(txs, t.tx, [txs[t.tx] EXCEPT !.disputed = TRUE]),
                              "applied")
        ELSE Outcome(created, txs, "dispute_failed")

handle_dispute(t, accts, txs) ==
    LET created == entry_or_insert(accts, t.client)
    IN  IF t.tx \in DOMAIN txs /\ txs[t.tx].client = t.client /\ ~txs[t.tx].disputed
        THEN IF txs[t.tx].amount <= 0
             THEN Outcome(created, txs, "not_a_deposit")
             ELSE LET dispute_amount == txs[t.tx].amount
                  IN  Outcome(Put(created, t.client,
                                  mutate_account_balance(created[t.client],
                                                         -dispute_amount, dispute_amount, 0)),
                              Put(txs, t.tx, [txs[t.tx] EXCEPT !.disputed = TRUE]),
                              "applied")
        ELSE Outcome(created, txs, "dispute_failed")

\* Mutant of handle_resolve: the record's owner is not compared with the
\* resolving client.
handle_resolve_any_client(t, accts, txs) ==
    LET created == entry_or_insert(accts, t.client)
    IN  IF t.tx \in DOMAIN txs /\ txs[t.tx].disputed
        THEN IF txs[t.tx].amount <= 0
             THEN Outcome(created, txs, "not_a_deposit")
             ELSE LET resolve_amount == txs[t.tx].amount
                  IN  Outcome(Put(created, t.client,
                                  mutate_account_balance(created[t.client],
                                                         resolve_amount, -resolve_amount, 0)),
                              Put(txs, t.tx, [txs[t.tx] EXCEPT !.disputed = FALSE]),
                              "applied")
        ELSE IF t.tx \in DOMAIN txs
        THEN Outcome(created, txs, "not_under_dispute")
        ELSE Outcome(created, txs, "not_found")

handle_resolve(t, accts, txs) ==
    LET created == entry_or_insert(accts, t.client)
    IN  IF t.tx \in DOMAIN txs /\ txs[t.tx].client = t.client /\ txs[t.tx].disputed
        THEN IF txs[t.tx].amount <= 0
             THEN Outcome(created, txs, "not_a_deposit")
             ELSE LET resolve_amount == txs[t.tx].amount
                  IN  Outcome(Put(created, t.client,
                                  mutate_account_balance(created[t.client],
                                                         resolve_amount, -resolve_amount, 0)),
                              Put(txs, t.tx, [txs[t.tx] EXCEPT !.disputed = FALSE]),
                              "applied")
        ELSE IF t.tx \in DOMAIN txs
        THEN Outcome(created, txs, "not_under_dispute")
        ELSE Outcome(created, txs, "not_found")

\* Mutant of handle_chargeback: the account is locked before the record is
\* looked up, whatever the lookup finds.
handle_chargeback_lock_first(t, accts, txs) ==
    LET entry == entry_or_insert(accts, t.client)
        created == Put(entry, t.client, [entry[t.client] EXCEPT !.locked = TRUE])
    IN  IF t.tx \in DOMAIN txs /\ txs[t.tx].client = t.client /\ txs[t.tx].disputed
        THEN IF txs[t.tx].amount <= 0
             THEN Outcome(created, txs, "not_a_deposit")
             ELSE LET chargeback_amount == txs[t.tx].amount
                  IN  Outcome(Put(created, t.client,
                                  mutate_account_balance(created[t.client], 0,
                                                         -chargeback_amount,
                                                         -chargeback_amount)),
                              Put(txs, t.tx, [txs[t.tx] EXCEPT !.disputed = FALSE]),
                              "applied")
        ELSE IF t.tx \in DOMAIN txs
        THEN Outcome(created, txs, "not_under_dispute")
        ELSE Outcome(created, txs, "not_found")

handle_chargeback(t, accts, txs) ==
    LET created == entry_or_insert(accts, t.client)
    IN  IF t.tx \in DOMAIN txs /\ txs[t.tx].client = t.client /\ txs[t.tx].disputed
        THEN IF txs[t.tx].amount <= 0
             THEN Outcome(created, txs, "not_a_deposit")
             ELSE LET chargeback_amount == txs[t.tx].amount
                      locked == [created[t.client] EXCEPT !.locked = TRUE]
                  IN  Outcome(Put(created, t.client,
                                  mutate_account_balance(locked, 0, -chargeback_amount,
                                                         -chargeback_amount)),
                              Put(txs, t.tx, [txs[t.tx] EXCEPT !.disputed = FALSE]),
                              "applied")
        ELSE IF t.tx \in DOMAIN txs
        THEN Outcome(created, txs, "not_under_dispute")
        ELSE Outcome(created, txs, "not_found")

\* Mutant of handle_transaction: a locked account drops every event, the
\* dispute, resolve and chargeback events included.
handle_transaction_lock_all(t, accts, txs) ==
    IF t.client \in DOMAIN accts /\ accts[t.client].locked
    THEN Outcome(accts, txs, "locked")
    ELSE CASE t.tx_type = "deposit" -> handle_deposit(t, accts, txs)
           [] t.tx_type = "withdrawal" -> handle_withdrawal(t, accts, txs)
           [] t.tx_type = "dispute" -> handle_dispute(t, accts, txs)
           [] t.tx_type = "resolve" -> handle_resolve(t, accts, txs)
           [] t.tx_type = "chargeback" -> handle_chargeback(t, accts, txs)

handle_transaction(t, accts, txs) ==
    IF /\ t.client \in DOMAIN accts
       /\ accts[t.client].locked
       /\ t.tx_type \notin {"dispute", "resolve", "chargeback"}
    THEN Outcome(accts, txs, "locked")
    ELSE CASE t.tx_type = "deposit" -> handle_deposit(t, accts, txs)
           [] t.tx_type = "withdrawal" -> handle_withdrawal(t, accts, txs)
           [] t.tx_type = "dispute" -> handle_dispute(t, accts, txs)
           [] t.tx_type = "resolve" -> handle_resolve(t, accts, txs)
           [] t.tx_type = "chargeback" -> handle_chargeback(t, accts, txs)

\* ------------------------------------------------------------------ main.rs

VARIABLES
    pc,            \* where run()/main() is: "read", "send", "returned", "failed",
                   \* or how the process has ended: "exit0", "exit1"
    n,             \* records the csv stream has yielded so far
    pending,       \* Option: the message run() is about to send
    senders,       \* keys of the senders map: clients with a channel and a worker
    queue,         \* client -> messages buffered in its channel
    cur,           \* client -> Option: the message its worker received and is handling
    alive,         \* client -> its worker task has not ended
    accounts,      \* AccountsMap
    transactions,  \* TransactionsMap
    signal,        \* client -> diagnostic of the last event its worker handled
    output,        \* Option: the account records written to stdout, in order
    sent,          \* history: client -> number of its events accepted for sending
    lastSeq,       \* history: client -> number of the last of its events handled
    iso,           \* history: client -> the maps its events alone would have built
    used,          \* history: client -> tx ids of its accepted deposits and withdrawals
    spawned,       \* history: client -> worker tasks spawned for it so far
    charged        \* history: tx ids a chargeback has succeeded on

vars == <<pc, n, pending, senders, queue, cur, alive, accounts, transactions,
          signal, output, sent, lastSeq, iso, used, spawned, charged>>

EmptyMap == [x \in {} |-> 0]

Init ==
    /\ pc = "read"
    /\ n = 0
    /\ pending = <<>>
    /\ senders = {}
    /\ queue = [c \in Clients |-> <<>>]
    /\ cur = [c \in Clients |-> <<>>]
    /\ alive = [c \in Clients |-> FALSE]
    /\ accounts = EmptyMap
    /\ transactions = EmptyMap
    /\ signal = [c \in Clients |-> "silent"]
    /\ output = <<>>
    /\ sent = [c \in Clients |-> 0]
    /\ lastSeq = [c \in Clients |-> 0]
    /\ iso = [c \in Clients |-> [accounts |-> EmptyMap, transactions |-> EmptyMap]]
    /\ used = [c \in Clients |-> {}]
    /\ spawned = [c \in Clients |-> 0]
    /\ charged = {}

\* The records the csv stream may yield in Spec.  The dispatcher reads of a
\* record only its type, its client and whether its amount is valid, so the
\* stream carries one valid amount, deposits under both transaction ids and
\* every other type under transaction id 1; SpecEngine applies all of
\* Transaction.
Stream ==
    {t \in Transaction : /\ t.amount = <<>> \/ t.amount[1] = 10
                         /\ t.tx_type = "deposit" \/ t.tx = 1}

IsDW(t) == t.tx_type \in {"deposit", "withdrawal"}

\* transaction.amount.is_none_or(|a| a <= Decimal::ZERO)
amount_is_none_or_nonpositive(t) == t.amount = <<>> \/ t.amount[1] <= 0

\* The message made of event t, numbered among its client's events.
Message(t) == [seq |-> sent[t.client] + 1, t |-> t]

\* History kept when event t is accepted for its client.
Accept(t) ==
    /\ sent' = [sent EXCEPT ![t.client] = @ + 1]
    /\ used' = IF IsDW(t) THEN [used EXCEPT ![t.client] = @ \cup {t.tx}] ELSE used

\* Mutant of sender_or_insert_with: a channel is created and a worker spawned
\* for every event, whether or not the client has an entry.
sender_insert_always(client_id) ==
    /\ senders' = senders \cup {client_id}
    /\ alive' = [alive EXCEPT ![client_id] = TRUE]
    /\ spawned' = [spawned EXCEPT ![client_id] = @ + 1]

\* run(): senders.entry(client_id).or_insert_with(..): a client without an
\* entry gets a channel of CONCURRENCY_LIMIT slots and a spawned worker that
\* owns its receiver; a client with an entry keeps them.
sender_or_insert_with(client_id) ==
    /\ senders' = senders \cup {client_id}
    /\ alive' = IF client_id \in senders THEN alive
                ELSE [alive EXCEPT ![client_id] = TRUE]
    /\ spawned' = IF client_id \in senders THEN spawned
                  ELSE [spawned EXCEPT ![client_id] = @ + 1]

\* run(): the stream, of at most limit records, yields a decoded record; the
\* closure of try_for_each validates it, looks up or creates the client's
\* channel (spawning its worker) under the senders lock, and is left holding
\* the message to send.
RunRecord(t, limit) ==
    /\ pc = "read"
    /\ n < limit
    /\ n' = n + 1
    /\ IF IsDW(t) /\ amount_is_none_or_nonpositive(t)
       THEN UNCHANGED <<pc, pending, senders, alive, sent, used, spawned>>
       ELSE /\ pc' = "send"
            /\ pending' = <<Message(t)>>
            /\ sender_or_insert_with(t.client)
            /\ Accept(t)
    /\ UNCHANGED <<queue, cur, accounts, transactions, signal, output, lastSeq, iso,
                   charged>>

\* run() on a stream of at most MaxEvents records.
RunNext(t) == RunRecord(t, MaxEvents)

\* Mutant of RunSend: the message is buffered whether or not the channel has
\* a free slot.
RunSend_unbounded ==
    /\ pc = "send"
    /\ LET m == pending[1]
           c == m.t.client
       IN  IF ~alive[c]
           THEN UNCHANGED queue
           ELSE queue' = [queue EXCEPT ![c] = Append(@, m)]
    /\ pc' = "read"
    /\ pending' = <<>>
    /\ UNCHANGED <<n, senders, cur, alive, accounts, transactions, signal, output,
                   sent, lastSeq, iso, used, spawned, charged>>

\* run(): sender.send(transaction).await: waits while the channel is full;
\* an error (the receiver is gone) is logged and the message dropped.
RunSend ==
    /\ pc = "send"
    /\ LET m == pending[1]
           c == m.t.client
       IN  IF ~alive[c]
           THEN UNCHANGED queue
           ELSE /\ Len(queue[c]) < CONCURRENCY_LIMIT
                /\ queue' = [queue EXCEPT ![c] = Append(@, m)]
    /\ pc' = "read"
    /\ pending' = <<>>
    /\ UNCHANGED <<n, senders, cur, alive, accounts, transactions, signal, output,
                   sent, lastSeq, iso, used, spawned, charged>>

\* run(): the stream yields a decode error: try_for_each stops and `.await?`
\* returns it from run(); output_accounts is not reached.
RunDecodeError ==
    /\ pc = "read"
    /\ n < MaxEvents
    /\ n' = n + 1
    /\ pc' = "failed"
    /\ UNCHANGED <<pending, senders, queue, cur, alive, accounts, transactions,
                   signal, output, sent, lastSeq, iso, used, spawned, charged>>

\* The orders in which DashMap::iter may visit the keys S: each key once, in
\* an order fixed by the hasher, not by the keys.
IterOrders(S) ==
    {s \in [1..Cardinality(S) -> S] : \A i, j \in 1..Cardinality(S) : s[i] = s[j] => i = j}

\* account.rs output_accounts: clone every entry in iteration order and
\* serialize the clones in that order.
output_accounts(accts, order) == [i \in 1..Len(order) |-> accts[order[i]]]

\* run(): the stream is exhausted, try_for_each returns Ok and
\* output_accounts(&accounts) runs at once; run() then returns, dropping the
\* senders map.
RunOutput ==
    /\ pc = "read"
    /\ \E order \in IterOrders(DOMAIN accounts) :
           output' = <<output_accounts(accounts, order)>>
    /\ pc' = "returned"
    /\ UNCHANGED <<n, pending, senders, queue, cur, alive, accounts, transactions,
                   signal, sent, lastSeq, iso, used, spawned, charged>>

\* The process has ended.
Exited == pc \in {"exit0", "exit1"}

\* main(): run() has returned; main returns (exit code 0) or, on Err, calls
\* process::exit(1); the runtime with every worker task is gone.
ProcessExit ==
    /\ pc \in {"returned", "failed"}
    /\ pc' = IF pc = "failed" THEN "exit1" ELSE "exit0"
    /\ UNCHANGED <<n, pending, senders, queue, cur, alive, accounts, transactions,
                   signal, output, sent, lastSeq, iso, used, spawned, charged>>

\* Mutant of recv: the newest buffered message is handed out first.
recv_newest(q) == q[Len(q)]

\* The message rx.recv() hands out: the oldest one buffered.
recv(q) == Head(q)

\* process_client_transactions: rx.recv().await yields the next message.
WorkerRecv(c) ==
    /\ ~Exited
    /\ alive[c]
    /\ cur[c] = <<>>
    /\ queue[c] # <<>>
    /\ LET m == recv(queue[c])
       IN  /\ cur' = [cur EXCEPT ![c] = <<m>>]
           /\ queue' = [queue EXCEPT ![c] = SelectSeq(queue[c], LAMBDA x : x # m)]
    /\ UNCHANGED <<pc, n, pending, senders, alive, accounts, transactions, signal,
                   output, sent, lastSeq, iso, used, spawned, charged>>

\* process_client_transactions: handle_transaction on the received message;
\* its Result is only logged.
WorkerApply(c) ==
    /\ ~Exited
    /\ cur[c] # <<>>
    /\ LET m == cur[c][1]
           r == handle_transaction(m.t, accounts, transactions)
           ri == handle_transaction(m.t, iso[c].accounts, iso[c].transactions)
       IN  /\ accounts' = r.accounts
           /\ transactions' = r.transactions
           /\ signal' = [signal EXCEPT ![c] = r.signal]
           /\ lastSeq' = [lastSeq EXCEPT ![c] = m.seq]
           /\ iso' = [iso EXCEPT ![c] = [accounts |-> ri.accounts,
                                         transactions |-> ri.transactions]]
           /\ charged' = IF m.t.tx_type = "chargeback" /\ r.signal = "applied"
                         THEN charged \cup {m.t.tx} ELSE charged
    /\ cur' = [cur EXCEPT ![c] = <<>>]
    /\ UNCHANGED <<pc, n, pending, senders, queue, alive, output, sent, used, spawned>>

\* process_client_transactions: recv() yields None once every Sender is
\* dropped (run() has returned) and the buffer is empty; the task ends.
WorkerEnd(c) ==
    /\ pc \in {"returned", "failed"}
    /\ alive[c]
    /\ cur[c] = <<>>
    /\ queue[c] = <<>>
    /\ alive' = [alive EXCEPT ![c] = FALSE]
    /\ UNCHANGED <<pc, n, pending, senders, queue, cur, accounts, transactions,
                   signal, output, sent, lastSeq, iso, used, spawned, charged>>

Next ==
    \/ \E t \in Stream : RunNext(t)
    \/ RunSend
    \/ RunDecodeError
    \/ RunOutput
    \/ ProcessExit
    \/ \E c \in Clients : WorkerRecv(c)
    \/ \E c \in Clients : WorkerApply(c)
    \/ \E c \in Clients : WorkerEnd(c)

\* The whole program: run() feeding the per-client workers.
Spec == Init /\ [][Next]_vars

\* The records of a stream of deposits only: many events per client and
\* nothing that is rejected, to fill the channels.
BurstStream == {t \in Stream : t.tx_type = "deposit" /\ t.amount = <<10>>}

\* run() on a stream of at most MaxBurst deposits.
RunBurst(t) == RunRecord(t, MaxBurst)

NextBackpressure ==
    \/ \E t \in BurstStream : RunBurst(t)
    \/ RunSend
    \/ RunDecodeError
    \/ RunOutput
    \/ ProcessExit
    \/ \E c \in Clients : WorkerRecv(c)
    \/ \E c \in Clients : WorkerApply(c)
    \/ \E c \in Clients : WorkerEnd(c)

\* The whole program on a longer stream of deposits: long enough for the
\* producer to find a channel full while another client's worker has work.
SpecBackpressure == Init /\ [][NextBackpressure]_vars

\* Fair scheduling: the tokio runtime keeps polling every task that can make
\* progress.  The producer takes the next item of its finite stream (a
\* record, a decode error or the end) and completes a send whose channel has
\* a slot; a worker receives a waiting message, finishes the one it holds
\* and ends once its channel is closed and empty; main returns once run()
\* has.
Fairness ==
    /\ WF_vars((\E t \in BurstStream : RunBurst(t)) \/ RunDecodeError \/ RunOutput)
    /\ WF_vars(RunSend)
    /\ WF_vars(ProcessExit)
    /\ \A c \in Clients : WF_vars(WorkerRecv(c))
    /\ \A c \in Clients : WF_vars(WorkerApply(c))
    /\ \A c \in Clients : WF_vars(WorkerEnd(c))

\* The whole program on a stream of deposits under fair scheduling.
SpecFair == Init /\ [][NextBackpressure]_vars /\ Fairness

\* transaction.rs tests: handle_transaction(tx, &accounts, &transactions) is
\* called directly, one event after the other, on maps that start empty.
TestCall(t) ==
    /\ pc = "read"
    /\ n < MaxCalls
    /\ \A c \in Clients : cur[c] = <<>>
    /\ n' = n + 1
    /\ cur' = [cur EXCEPT ![t.client] = <<Message(t)>>]
    /\ Accept(t)
    /\ UNCHANGED <<pc, pending, senders, queue, alive, accounts, transactions, signal,
                   output, lastSeq, iso, spawned, charged>>

NextEngine ==
    \/ \E t \in Transaction : TestCall(t)
    \/ \E c \in Clients : WorkerApply(c)

\* The rule engine alone: every sequence of at most MaxCalls events applied
\* in order to maps that start empty.
SpecEngine == Init /\ [][NextEngine]_vars

\* ------------------------------------------------------------------ properties

\* Worker c finishes handling the message it holds in this step.
IsApply(c) == cur[c] # <<>> /\ cur'[c] = <<>>

\* C1: for every account, in every reachable state after any sequence of
\* events (amounts with a 5th fractional digit included),
\* total = available + held.
C1_TotalIsAvailablePlusHeld ==
    \A c \in DOMAIN accounts :
        accounts[c].total = accounts[c].available + accounts[c].held

\* C2: once the accounts have been written out, every event the producer
\* enqueued has been applied (no queue holds a message, no worker is handling
\* one) and the accounts are still what was written.
C2_SnapshotAfterDrain ==
    output # <<>> =>
        /\ \A c \in Clients : queue[c] = <<>> /\ cur[c] = <<>>
        /\ Len(output[1]) = Cardinality(DOMAIN accounts)
        /\ \A i \in 1..Len(output[1]) :
               /\ output[1][i].client \in DOMAIN accounts
               /\ output[1][i] = accounts[output[1][i].client]

\* C3: the records written out are in strictly ascending order of client id
\* (hence each client at most once), and each is the record of an account.
C3_OutputAscending ==
    output # <<>> =>
        /\ \A i, j \in 1..Len(output[1]) :
               i < j => output[1][i].client < output[1][j].client
        /\ \A i \in 1..Len(output[1]) : output[1][i].client \in DOMAIN accounts

\* C4: a decode error does not stop the run: run() never fails on one, the
\* process never ends with exit code 1, and a run that has ended has written
\* the final balances.
C4_DecodeErrorSkipped ==
    /\ pc \notin {"failed", "exit1"}
    /\ Exited => output # <<>>

\* The messages of client c that are accepted and not yet handled, oldest
\* first: the one its worker holds, those buffered, the one run() is sending.
InFlight(c) ==
    cur[c] \o queue[c] \o
    (IF pending # <<>> /\ pending[1].t.client = c THEN pending ELSE <<>>)

\* C5: each worker handles its client's events in exactly the order the
\* producer yielded them: the events of client c in flight are, oldest first,
\* the next ones after the last event handled for c, none skipped, none
\* repeated, none overtaken.
C5_PerClientFifo ==
    \A c \in Clients :
        /\ \A i \in 1..Len(InFlight(c)) : InFlight(c)[i].seq = lastSeq[c] + i
        /\ lastSeq[c] + Len(InFlight(c)) = sent[c]

\* C5 witness: a worker has handled its client's first event while two
\* further, different events of that client wait in its channel.
C5_Witness ==
    \E c \in Clients :
        lastSeq[c] = 1 /\ Len(queue[c]) = 2 /\ queue[c][1].t # queue[c][2].t

\* The account of client c in the map accts, as an Option.
AccountOf(accts, c) == IF c \in DOMAIN accts THEN <<accts[c]>> ELSE <<>>

\* No deposit or withdrawal of another client carries a transaction id that
\* a deposit or withdrawal of client c carries.
NoSharedTx(c) == \A d \in Clients \ {c} : used[c] \cap used[d] = {}

\* C6 as stated: whatever the other clients' events are and however they
\* interleave, the account of client c is what c's events alone, in their
\* order, produce.
C6_Original ==
    \A c \in Clients : AccountOf(accounts, c) = AccountOf(iso[c].accounts, c)

\* C6 amended: the same, for a client none of whose deposit/withdrawal
\* transaction ids is carried by a deposit or withdrawal of another client.
C6_Amended ==
    \A c \in Clients :
        NoSharedTx(c) => AccountOf(accounts, c) = AccountOf(iso[c].accounts, c)

\* C6 witness: two clients with disjoint transaction ids, each with a deposit
\* applied, one of them having had a second event handled.
C6_Witness ==
    \E c, d \in Clients :
        /\ c # d /\ NoSharedTx(c) /\ NoSharedTx(d)
        /\ c \in DOMAIN accounts /\ accounts[c].total > 0
        /\ d \in DOMAIN accounts /\ accounts[d].total > 0
        /\ lastSeq[d] = 2

\* The available, held and total of every account are as before the step; an
\* account the step creates has all three zero.
BalancesUnchanged ==
    /\ \A k \in DOMAIN accounts :
           /\ k \in DOMAIN accounts'
           /\ accounts'[k].available = accounts[k].available
           /\ accounts'[k].held = accounts[k].held
           /\ accounts'[k].total = accounts[k].total
    /\ \A k \in DOMAIN accounts' \ DOMAIN accounts :
           accounts'[k].available = 0 /\ accounts'[k].held = 0 /\ accounts'[k].total = 0

\* C7: handling a deposit or withdrawal whose transaction id already has a
\* record (of any client) changes no account's available, held or total and
\* leaves every record (client, amount, disputed) as it was.
C7_DuplicateIdNoEffect ==
    [][\A c \in Clients :
           (/\ IsApply(c)
            /\ IsDW(cur[c][1].t)
            /\ cur[c][1].t.tx \in DOMAIN transactions)
           => (BalancesUnchanged /\ transactions' = transactions)]_vars

\* C7 witness: the last event of a client was rejected as a duplicate, and a
\* transaction id of its deposits and withdrawals has a record that another
\* client owns.
C7_Witness ==
    \E c \in Clients :
        /\ signal[c] = "duplicate"
        /\ \E x \in used[c] \cap DOMAIN transactions : transactions[x].client # c

\* The record named by event t exists, is owned by t's client and is a deposit.
OwnDeposit(t) ==
    /\ t.tx \in DOMAIN transactions
    /\ transactions[t.tx].client = t.client
    /\ transactions[t.tx].amount > 0

\* C8: for a client whose account is locked, a deposit or withdrawal changes
\* no account and creates no record, while a dispute, resolve or chargeback
\* is still evaluated: a dispute of an own undisputed deposit marks it
\* disputed, a resolve or chargeback of an own disputed deposit clears the
\* mark.
C8_LockedAccount ==
    [][\A c \in Clients :
           (IsApply(c) /\ c \in DOMAIN accounts /\ accounts[c].locked)
           => LET t == cur[c][1].t
              IN  /\ IsDW(t) => (accounts' = accounts /\ transactions' = transactions)
                  /\ (t.tx_type = "dispute" /\ OwnDeposit(t)
                      /\ ~transactions[t.tx].disputed)
                     => transactions'[t.tx].disputed
                  /\ (t.tx_type \in {"resolve", "chargeback"} /\ OwnDeposit(t)
                      /\ transactions[t.tx].disputed)
                     => ~transactions'[t.tx].disputed]_vars

\* C8 witness: a locked account whose last event, a deposit or withdrawal,
\* was dropped because of the lock.
C8_Witness ==
    \E c \in DOMAIN accounts : accounts[c].locked /\ signal[c] = "locked"

\* C9: a dispute succeeds exactly when its record exists, is owned by the
\* disputing client, is not disputed and has amount > 0; then the record
\* becomes disputed, available goes down by the amount, held goes up by the
\* amount and total stays; otherwise no record and no balance changes.  No
\* record with a negative amount is ever disputed.
C9_DisputeRule ==
    [][\A c \in Clients :
           (IsApply(c) /\ cur[c][1].t.tx_type = "dispute")
           => LET t == cur[c][1].t
                  before == IF c \in DOMAIN accounts THEN accounts[c] ELSE Account(c)
              IN  /\ IF OwnDeposit(t) /\ ~transactions[t.tx].disputed
                     THEN /\ transactions'[t.tx].disputed
                          /\ accounts'[c].available
                                 = before.available - transactions[t.tx].amount
                          /\ accounts'[c].held = before.held + transactions[t.tx].amount
                          /\ accounts'[c].total = before.total
                     ELSE BalancesUnchanged /\ transactions' = transactions
                  /\ \A x \in DOMAIN transactions' :
                         transactions'[x].amount < 0 => ~transactions'[x].disputed]_vars

\* C10: a rejected dispute (record not found, owned by another client, or
\* already disputed) mutates nothing: the set of accounts, every account and
\* every record are the same after the event as before.
C10_RejectedDisputeNoMutation ==
    [][\A c \in Clients :
           (/\ IsApply(c)
            /\ cur[c][1].t.tx_type = "dispute"
            /\ LET t == cur[c][1].t
               IN  \/ t.tx \notin DOMAIN transactions
                   \/ transactions[t.tx].client # c
                   \/ transactions[t.tx].disputed)
           => (accounts' = accounts /\ transactions' = transactions)]_vars

\* C11: a chargeback succeeds exactly when its record exists, is owned by the
\* event's client, is disputed and has amount > 0; then held and total each
\* go down by the amount, available stays, the record is no longer disputed
\* and the account is locked; otherwise no record and no balance changes and
\* no account becomes locked.  A chargeback on a record that is not disputed
\* changes nothing at all.
C11_ChargebackRule ==
    [][\A c \in Clients :
           (IsApply(c) /\ cur[c][1].t.tx_type = "chargeback")
           => LET t == cur[c][1].t
                  before == IF c \in DOMAIN accounts THEN accounts[c] ELSE Account(c)
              IN  /\ IF OwnDeposit(t) /\ transactions[t.tx].disputed
                     THEN /\ ~transactions'[t.tx].disputed
                          /\ accounts'[c].locked
                          /\ accounts'[c].available = before.available
                          /\ accounts'[c].held = before.held - transactions[t.tx].amount
                          /\ accounts'[c].total = before.total - transactions[t.tx].amount
                     ELSE /\ BalancesUnchanged
                          /\ transactions' = transactions
                          /\ \A k \in DOMAIN accounts' :
                                 accounts'[k].locked
                                 => (k \in DOMAIN accounts /\ accounts[k].locked)
                  /\ (t.tx \in DOMAIN transactions /\ ~transactions[t.tx].disputed)
                     => (accounts' = accounts /\ transactions' = transactions)]_vars

\* The available, held and total of client c's account in the map accts.
BalancesOf(accts, c) == <<accts[c].available, accts[c].held, accts[c].total>>

\* C12: in every reachable state, for every deposit of a client that can be
\* disputed (own record, amount > 0, not disputed), the dispute of it
\* immediately followed by its resolve leaves the client's available, held
\* and total exactly as they are now, and the record not disputed.
C12_DisputeResolveRoundTrip ==
    \A c \in DOMAIN accounts : \A x \in DOMAIN transactions :
        LET d == [tx_type |-> "dispute", client |-> c, tx |-> x, amount |-> <<>>]
            r == [tx_type |-> "resolve", client |-> c, tx |-> x, amount |-> <<>>]
            afterDispute == handle_transaction(d, accounts, transactions)
            afterResolve == handle_transaction(r, afterDispute.accounts,
                                               afterDispute.transactions)
        IN  (OwnDeposit(d) /\ ~transactions[x].disputed)
            => /\ afterDispute.signal = "applied"
               /\ afterResolve.signal = "applied"
               /\ BalancesOf(afterResolve.accounts, c) = BalancesOf(accounts, c)
               /\ ~afterResolve.transactions[x].disputed

\* C13: a withdrawal of a valid amount greater than the available funds of
\* its client (zero for a client without an account) changes no balance and
\* no record, and afterwards the client has an account, which is the
\* zero-balance unlocked one if it had none; a withdrawal that is applied
\* leaves available >= 0.
C13_WithdrawalNeedsFunds ==
    [][\A c \in Clients :
           (IsApply(c) /\ cur[c][1].t.tx_type = "withdrawal"
            /\ ~amount_is_none_or_nonpositive(cur[c][1].t))
           => LET t == cur[c][1].t
                  before == IF c \in DOMAIN accounts THEN accounts[c] ELSE Account(c)
              IN  /\ t.amount[1] > before.available
                     => /\ transactions' = transactions
                        /\ c \in DOMAIN accounts'
                        /\ accounts'[c] = before
                        /\ \A k \in DOMAIN accounts : k \in DOMAIN accounts'
                                                      /\ accounts'[k] = accounts[k]
                        /\ signal'[c] # "applied"
                  /\ signal'[c] = "applied" => accounts'[c].available >= 0]_vars

\* C13 witness: a client whose only event, a withdrawal, was rejected for
\* insufficient funds and left it the zero-balance unlocked account, and a
\* client whose withdrawal was rejected for insufficient funds while it had
\* funds available.
C13_Witness ==
    /\ \E c \in DOMAIN accounts :
           signal[c] = "insufficient_funds" /\ lastSeq[c] = 1 /\ accounts[c] = Account(c)
    /\ \E c \in DOMAIN accounts :
           signal[c] = "insufficient_funds" /\ accounts[c].available > 0

\* C14: handling a deposit or withdrawal whose amount is absent, zero or
\* negative changes nothing: the set of accounts, every account and every
\* record are the same after the event as before.
C14_InvalidAmountNoOp ==
    [][\A c \in Clients :
           (/\ IsApply(c)
            /\ IsDW(cur[c][1].t)
            /\ amount_is_none_or_nonpositive(cur[c][1].t))
           => (accounts' = accounts /\ transactions' = transactions)]_vars

\* C14 witness: a client the last event of which was dropped without a
\* diagnostic (a deposit or withdrawal with an invalid amount) and which has
\* no account, while another client has one.
C14_Witness ==
    \E c \in Clients :
        /\ lastSeq[c] >= 1 /\ signal[c] = "silent"
        /\ c \notin DOMAIN accounts
        /\ DOMAIN accounts # {}

Abs(x) == IF x >= 0 THEN x ELSE -x

\* The amounts truncate_to_4 is evaluated on: every amount of magnitude at
\* most MaxMagnitude, and every sum account field + delta that a handler can
\* hand to mutate_account_balance in the current state.
TruncateInputs ==
    (-MaxMagnitude..MaxMagnitude)
    \cup {accounts[c].available + s * a :
              c \in DOMAIN accounts, s \in {-1, 1}, a \in ValidAmounts}
    \cup {accounts[c].held + s * a :
              c \in DOMAIN accounts, s \in {-1, 1}, a \in ValidAmounts}
    \cup {accounts[c].total + s * a :
              c \in DOMAIN accounts, s \in {-1, 1}, a \in ValidAmounts}

\* C15: for every amount x, truncate_to_4(x) is no larger than x in
\* magnitude, differs from x by less than 0.0001, is zero or has the sign of
\* x, has at most 4 fractional digits, and equals x when x has at most 4
\* fractional digits; and every account's available, held and total have at
\* most 4 fractional digits.
C15_TruncateTowardZero ==
    /\ \A x \in TruncateInputs :
           LET y == truncate_to_4(x)
           IN  /\ Abs(y) <= Abs(x)
               /\ Abs(x - y) < 10
               /\ x >= 0 => y >= 0
               /\ x <= 0 => y <= 0
               /\ y % 10 = 0
               /\ x % 10 = 0 => y = x
    /\ \A c \in DOMAIN accounts :
           /\ accounts[c].available % 10 = 0
           /\ accounts[c].held % 10 = 0
           /\ accounts[c].total % 10 = 0

\* C15 witness: a deposit of 0.00015 is under dispute and its account has
\* available 0 and total 0.0001: the deposit truncated 0.00015 to 0.0001 and
\* the dispute truncated 0.0001 - 0.00015 = -0.00005 to 0, toward zero.
C15_Witness ==
    \E x \in DOMAIN transactions :
        /\ transactions[x].disputed /\ transactions[x].amount = 15
        /\ transactions[x].client \in DOMAIN accounts
        /\ accounts[transactions[x].client].available = 0
        /\ accounts[transactions[x].client].held = 10
        /\ accounts[transactions[x].client].total = 10

\* The diagnostics of a business-rule rejection.
Rejections == Signals \ {"applied", "silent"}

\* C16: a rejection stops nothing: while run() is reading or sending, the
\* worker of every registered client is active; and the events that follow a
\* rejected event in its client's queue are applied, so the process never
\* ends with the last handled event of a client rejected and later events of
\* that client still waiting.
C16_RejectionDoesNotStop ==
    \A c \in Clients :
        /\ (c \in senders /\ pc \in {"read", "send"}) => alive[c]
        /\ (Exited /\ lastSeq[c] >= 1 /\ signal[c] \in Rejections)
           => (queue[c] = <<>> /\ cur[c] = <<>>)

\* While run() is reading or sending, after a rejection as after any event,
\* the worker is active and idle or busy with the next event, and an idle
\* worker with a waiting event can receive it.
C16_WorkerStaysActive ==
    \A c \in Clients :
        (c \in senders /\ ~Exited /\ pc \in {"read", "send"})
        => /\ alive[c]
           /\ (cur[c] = <<>> /\ queue[c] # <<>>) => ENABLED WorkerRecv(c)
           /\ cur[c] # <<>> => ENABLED WorkerApply(c)

\* C17: for every client at most one channel and one worker are ever
\* created, and one exists exactly when the client is registered in the
\* senders map; a client's worker handles at most one event at a time; and
\* every message waiting in or received from the channel of client c is an
\* event of client c.
C17_OneWorkerPerClient ==
    \A c \in Clients :
        /\ spawned[c] <= 1
        /\ c \in senders <=> spawned[c] = 1
        /\ alive[c] => spawned[c] = 1
        /\ Len(cur[c]) <= 1
        /\ \A i \in 1..Len(queue[c]) : queue[c][i].t.client = c
        /\ \A i \in 1..Len(cur[c]) : cur[c][i].t.client = c

\* C17 witness: a client with two events accepted and one worker spawned is
\* having an event handled while the worker of another client is handling
\* one too.
C17_Witness ==
    \E c, d \in Clients :
        /\ c # d
        /\ sent[c] >= 2 /\ spawned[c] = 1 /\ cur[c] # <<>>
        /\ spawned[d] = 1 /\ cur[d] # <<>>

\* Client c has an account and it is locked, in the map accts.
IsLocked(accts, c) == c \in DOMAIN accts /\ accts[c].locked

\* C18: no step unlocks an account that is locked, and an account becomes
\* locked only in a step in which its client's worker applies a chargeback
\* of a disputed deposit of that client.
C18_LockedMonotone ==
    [][\A c \in Clients :
           /\ IsLocked(accounts, c) => IsLocked(accounts', c)
           /\ (IsLocked(accounts', c) /\ ~IsLocked(accounts, c))
              => /\ IsApply(c)
                 /\ cur[c][1].t.tx_type = "chargeback"
                 /\ OwnDeposit(cur[c][1].t)
                 /\ transactions[cur[c][1].t.tx].disputed
                 /\ signal'[c] = "applied"]_vars

\* C18 witness: an account locked by a chargeback is still locked after a
\* later dispute of its client has been applied (a record of the client is
\* disputed).
C18_Witness ==
    \E c \in Clients :
        /\ IsLocked(accounts, c)
        /\ \E x \in DOMAIN transactions :
               transactions[x].client = c /\ transactions[x].disputed

\* C19: once a chargeback of transaction T has succeeded, handling a
\* dispute, resolve or chargeback naming T changes no account's available,
\* held or total.
C19_ChargebackIsFinal ==
    [][\A c \in Clients :
           (/\ IsApply(c)
            /\ cur[c][1].t.tx_type \in {"dispute", "resolve", "chargeback"}
            /\ cur[c][1].t.tx \in charged)
           => BalancesUnchanged]_vars

\* run() is in send(..).await on a channel that has no free slot.
ProducerBlocked ==
    /\ pc = "send"
    /\ alive[pending[1].t.client]
    /\ Len(queue[pending[1].t.client]) = CONCURRENCY_LIMIT

\* C20: no channel ever buffers more than CONCURRENCY_LIMIT messages, the
\* same limit for every client.  While the producer is blocked on a full
\* channel, no step reads a record or adds a message to any channel (the
\* producer still holds the same message), and the worker of every other
\* client can receive its next waiting event or finish the one it holds; a
\* producer whose target channel has a free slot can send.
C20_BoundedQueues ==
    [][/\ \A c \in Clients : Len(queue'[c]) <= CONCURRENCY_LIMIT
       /\ ProducerBlocked
          => /\ pc' = "send" /\ pending' = pending /\ n' = n
             /\ \A c \in Clients : Len(queue'[c]) <= Len(queue[c])
             /\ ~ENABLED RunSend
             /\ \A d \in Clients \ {pending[1].t.client} :
                    /\ cur[d] # <<>> => ENABLED WorkerApply(d)
                    /\ (alive[d] /\ cur[d] = <<>> /\ queue[d] # <<>>)
                       => ENABLED WorkerRecv(d)
       /\ (pc = "send" /\ ~ProducerBlocked) => ENABLED RunSend]_vars

\* C20 witness: the producer is blocked on the full channel of one client
\* while the worker of another client is handling an event.
C20_Witness ==
    /\ ProducerBlocked
    /\ \E d \in Clients \ {pending[1].t.client} : cur[d] # <<>>

\* try_for_each has returned Ok: the producer has reached the end of the
\* stream.
StreamEndReached == pc \in {"returned", "exit0"}

\* A producer suspended on a full channel is eventually resumed.
C21_BlockedProducerResumes == ProducerBlocked ~> ~ProducerBlocked

\* No send finds its worker terminated: whenever run() is about to send, the
\* worker of the target client is alive.
C21_NoSendToEndedWorker == pc = "send" => alive[pending[1].t.client]

\* C21: under fair scheduling a producer suspended on a full channel is
\* eventually resumed, no send finds its worker terminated, and the producer
\* eventually reaches the end of the stream.
C21_NoDeadlock ==
    /\ C21_BlockedProducerResumes
    /\ []C21_NoSendToEndedWorker
    /\ <>StreamEndReached

\* The transaction ids of the records of client c that are under dispute.
DisputedOf(c) ==
    {x \in DOMAIN transactions : transactions[x].client = c /\ transactions[x].disputed}

RECURSIVE SumAmounts(_)
\* The sum of the amounts of the records with the ids S.
SumAmounts(S) ==
    IF S = {} THEN 0
    ELSE LET x == CHOOSE y \in S : TRUE
         IN  transactions[x].amount + SumAmounts(S \ {x})

\* C22: in every reachable state, for every client with an account, held is
\* the sum of the amounts of the client's records that are under dispute,
\* and held >= 0; a client without an account has no record under dispute.
C22_HeldIsDisputedSum ==
    \A c \in Clients :
        IF c \in DOMAIN accounts
        THEN /\ accounts[c].held = SumAmounts(DisputedOf(c))
             /\ accounts[c].held >= 0
        ELSE DisputedOf(c) = {}

\* C23: a step in which the worker of client c applies an event leaves every
\* account other than c's exactly as it was (none is created, none changes
\* its available, held, total or locked) and leaves every record owned by
\* another client exactly as it was, its disputed flag included.
C23_ClientIsolation ==
    [][\A c \in Clients :
           IsApply(c)
           => /\ DOMAIN accounts' \subseteq DOMAIN accounts \cup {c}
              /\ \A k \in DOMAIN accounts \ {c} :
                     k \in DOMAIN accounts' /\ accounts'[k] = accounts[k]
              /\ \A x \in DOMAIN transactions :
                     transactions[x].client # c
                     => (x \in DOMAIN transactions'
                         /\ transactions'[x] = transactions[x])]_vars

\* C23 witness: a dispute, resolve or chargeback of one client naming a
\* record that another client owns has just been rejected, while the owner
\* has funds and its worker is handling an event of its own.
C23_Witness ==
    \E c, d \in Clients :
        /\ c # d
        /\ signal[c] \in {"dispute_failed", "not_under_dispute"}
        /\ lastSeq[c] >= 1
        /\ \E x \in DOMAIN transactions : transactions[x].client = d
        /\ d \in DOMAIN accounts /\ accounts[d].total > 0
        /\ cur[d] # <<>>

====
